---- MODULE Spec2Model ----
(***************************************************************************)
(* diffxl: the workbook difference extractor of src/diffxl/diffxl.py.      *)
(*                                                                         *)
(* The state is the interpreter state of main(): the two loaded workbooks, *)
(* the loop positions (target, worksheet, row, column), the accumulated    *)
(* difference list, the console and the files saved.  The workbook objects *)
(* are openpyxl's: a worksheet keeps a dictionary of the cells that exist  *)
(* (max_row and max_column are computed from it), and Worksheet.cell()     *)
(* creates the cell it is asked for when it does not exist yet.            *)
(***************************************************************************)
EXTENDS Integers, Sequences, FiniteSets, TLC

VARIABLES path1, targets, pc, workbook1, workbook2, target, sheet, row, col,
          max_row, max_col, differences, console, saved, answer

vars == <<path1, targets, pc, workbook1, workbook2, target, sheet, row, col,
          max_row, max_col, differences, console, saved, answer>>

(***************************************************************************)
(* Bounds of the model.                                                    *)
(***************************************************************************)
MaxRow == 3
MaxCol == 2
MaxTargets == 2

Rows == 1 .. MaxRow
Cols == 1 .. MaxCol

(***************************************************************************)
(* openpyxl.cell.cell: the data type codes.  A number and an empty cell    *)
(* carry the same code.                                                    *)
(***************************************************************************)
TYPE_STRING == "s"
TYPE_FORMULA == "f"
TYPE_NUMERIC == "n"
TYPE_NULL == "n"
TYPE_ERROR == "e"
TYPE_FORMULA_CACHE_STRING == "str"

(***************************************************************************)
(* Raw cell values and Python's str() of them.                             *)
(***************************************************************************)
None == [kind |-> "none", n |-> 0, s |-> ""]
Number(n) == [kind |-> "int", n |-> n, s |-> ""]
Text(s) == [kind |-> "str", n |-> 0, s |-> s]
Formula(s) == [kind |-> "formula", n |-> 0, s |-> s]
Error(s) == [kind |-> "error", n |-> 0, s |-> s]

str(value) ==
    CASE value.kind = "none" -> "None"
      [] value.kind = "int" -> ToString(value.n)
      [] OTHER -> value.s

\* The data type the loader binds to a cell's value.
data_type_of(value) ==
    CASE value.kind = "none" -> TYPE_NULL
      [] value.kind = "int" -> TYPE_NUMERIC
      [] value.kind = "formula" -> TYPE_FORMULA
      [] value.kind = "error" -> TYPE_ERROR
      [] OTHER -> TYPE_STRING

(***************************************************************************)
(* Coordinates: column letter + row number.                                *)
(***************************************************************************)
Letters == <<"A", "B", "C", "D", "E", "F", "G", "H">>

column_letter(c) == Letters[c]

coordinate(r, c) == column_letter(c) \o ToString(r)

\* The (row, column) a coordinate string names.
coordinate_to_tuple(coord) ==
    CHOOSE rc \in (1 .. MaxRow + 1) \X (1 .. MaxCol + 1) :
        coordinate(rc[1], rc[2]) = coord

(***************************************************************************)
(* Worksheets.  cells is the dictionary of existing cells, keyed by        *)
(* <<row, column>>; merged is the sequence of merged ranges; hidden_rows   *)
(* holds the row numbers and hidden_cols the column letters whose          *)
(* dimension is flagged hidden.                                            *)
(***************************************************************************)
Range(r1, c1, r2, c2) ==
    [min_row |-> r1, min_col |-> c1, max_row |-> r2, max_col |-> c2]

\* coordinate in merged_range
range_contains(merged_range, coord) ==
    LET rc == coordinate_to_tuple(coord)
    IN  /\ merged_range.min_row <= rc[1] /\ rc[1] <= merged_range.max_row
        /\ merged_range.min_col <= rc[2] /\ rc[2] <= merged_range.max_col

\* for merged_cell in merged_range: the loop is taken to visit the cells of
\* the range ("Check if any cell in the merged range is hidden").
range_cells(merged_range) ==
    (merged_range.min_row .. merged_range.max_row)
        \X (merged_range.min_col .. merged_range.max_col)

Max(S) == CHOOSE x \in S : \A y \in S : y <= x

ws_max_row(worksheet) ==
    IF DOMAIN worksheet.cells = {} THEN 1
    ELSE Max({k[1] : k \in DOMAIN worksheet.cells})

ws_max_column(worksheet) ==
    IF DOMAIN worksheet.cells = {} THEN 1
    ELSE Max({k[2] : k \in DOMAIN worksheet.cells})

\* The cell object worksheet.cell(row, col) returns.
cell(worksheet, r, c) ==
    IF <<r, c>> \in DOMAIN worksheet.cells
    THEN [row |-> r, col |-> c, coordinate |-> coordinate(r, c),
          value |-> worksheet.cells[<<r, c>>].value,
          data_type |-> worksheet.cells[<<r, c>>].data_type]
    ELSE [row |-> r, col |-> c, coordinate |-> coordinate(r, c),
          value |-> None, data_type |-> TYPE_NULL]

\* The worksheet after worksheet.cell(row, col): a cell that did not exist
\* has been created, empty, and added to the dictionary.
cell_created(worksheet, r, c) ==
    IF <<r, c>> \in DOMAIN worksheet.cells THEN worksheet
    ELSE [worksheet EXCEPT !.cells =
            [k \in DOMAIN worksheet.cells \cup {<<r, c>>} |->
                IF k = <<r, c>> THEN [value |-> None, data_type |-> TYPE_NULL]
                ELSE worksheet.cells[k]]]

\* A variant that knows the "hidden" state only.
only_hidden_state(worksheet) == worksheet.sheet_state = "hidden"

is_worksheet_hidden(worksheet) ==
    worksheet.sheet_state \in {"hidden", "veryHidden"}

RECURSIVE scan_merged_ranges(_, _, _)
scan_merged_ranges(worksheet, c, i) ==
    IF i > Len(worksheet.merged) THEN FALSE
    ELSE IF range_contains(worksheet.merged[i], c.coordinate)
         THEN \E merged_cell \in range_cells(worksheet.merged[i]) :
                \/ column_letter(merged_cell[2]) \in worksheet.hidden_cols
                \/ merged_cell[1] \in worksheet.hidden_rows
         ELSE scan_merged_ranges(worksheet, c, i + 1)

\* A variant that consults every range containing the cell.
any_range_hidden(worksheet, c) ==
    \E i \in 1 .. Len(worksheet.merged) :
        /\ range_contains(worksheet.merged[i], c.coordinate)
        /\ \E merged_cell \in range_cells(worksheet.merged[i]) :
                \/ column_letter(merged_cell[2]) \in worksheet.hidden_cols
                \/ merged_cell[1] \in worksheet.hidden_rows

is_cell_hidden(worksheet, c) == scan_merged_ranges(worksheet, c, 1)

MaskedTypes == {TYPE_NULL, TYPE_ERROR, TYPE_FORMULA, TYPE_FORMULA_CACHE_STRING}

\* value1 / value2 of main(): str(cell.value), emptied for a hidden cell
\* and for the masked data types.
cell_value(worksheet, c) ==
    LET shown == IF is_cell_hidden(worksheet, c) THEN "" ELSE str(c.value)
    IN  IF c.data_type \in MaskedTypes THEN "" ELSE shown

(***************************************************************************)
(* Files.  A workbook file is a sequence of worksheets; load_workbook      *)
(* builds the worksheet objects: every cell of a merged range but its      *)
(* top-left one is replaced by an empty merged cell.                       *)
(***************************************************************************)
\* No cell has been queried.
NoAnswer == [row |-> 0, col |-> 0, hidden |-> FALSE]

EmptyCell == [value |-> None, data_type |-> TYPE_NULL]

merge_cleaned(worksheet) ==
    LET covered == UNION {range_cells(worksheet.merged[i])
                            \ {<<worksheet.merged[i].min_row,
                                 worksheet.merged[i].min_col>>} :
                          i \in 1 .. Len(worksheet.merged)}
    IN  [worksheet EXCEPT !.cells =
            [k \in DOMAIN worksheet.cells \cup covered |->
                IF k \in covered THEN EmptyCell ELSE worksheet.cells[k]]]

load_workbook(file) == [i \in 1 .. Len(file) |-> merge_cleaned(file[i])]

sheetnames(workbook) == [i \in 1 .. Len(workbook) |-> workbook[i].title]

has_sheet(workbook, sheetname) ==
    \E i \in 1 .. Len(workbook) : workbook[i].title = sheetname

\* The position of workbook[sheetname] in the workbook.
sheet_index(workbook, sheetname) ==
    CHOOSE i \in 1 .. Len(workbook) : workbook[i].title = sheetname

file_name(path) == path.stem \o ".xlsx"

(***************************************************************************)
(* The inputs: the base file and the target files, in listing order.       *)
(***************************************************************************)
Cells == Rows \X Cols

Stored(value) == [value |-> value, data_type |-> data_type_of(value)]

NoMerge == [merged |-> <<>>, hidden_rows |-> {}, hidden_cols |-> {}]

Sheet(title, sheet_state, cells, m) ==
    [title |-> title, sheet_state |-> sheet_state, cells |-> cells,
     merged |-> m.merged, hidden_rows |-> m.hidden_rows,
     hidden_cols |-> m.hidden_cols]

\* Cell contents of one worksheet: A1 (optional) and at most one more cell.
A1Pool == {Number(5), Error("#N/A")}

ValuePool == {Number(10), Text("10"), Formula("=A1+1")}

\* What the target may hold in a cell in place of the base's content.
EditPool == {Number(99), Text("10"), Formula("=A1+2")}

NoCells == [k \in {} |-> EmptyCell]

With(cells, k, value) ==
    [x \in DOMAIN cells \cup {k} |-> IF x = k THEN Stored(value) ELSE cells[x]]

Without(cells, k) == [x \in DOMAIN cells \ {k} |-> cells[x]]

AnchorLayouts == {NoCells} \cup {With(NoCells, <<1, 1>>, v) : v \in A1Pool}

Layouts ==
    AnchorLayouts \cup
    {With(a, k, v) : a \in AnchorLayouts, k \in Cells \ {<<1, 1>>},
                     v \in ValuePool}

\* The target's cells: the base's, with at most one cell set or removed.
Edited(cells) ==
    {cells} \cup {Without(cells, k) : k \in DOMAIN cells}
            \cup {With(cells, k, v) : k \in Cells, v \in EditPool}

\* Merged ranges and hidden rows and columns of one worksheet.
MergedHidden ==
    [merged |-> <<Range(1, 1, 3, 1)>>, hidden_rows |-> {2},
     hidden_cols |-> {}]

MergePool ==
    { NoMerge, MergedHidden,
      [merged |-> <<Range(1, 1, 1, 2), Range(1, 1, 3, 1)>>,
       hidden_rows |-> {2}, hidden_cols |-> {}],
      [merged |-> <<>>, hidden_rows |-> {1}, hidden_cols |-> {"B"}] }

\* Workbooks of one or two worksheets, at most one of them not visible,
\* all with the same few cells.
SheetStates == {"visible", "hidden", "veryHidden"}

NameOrders == { <<"Sheet1">>, <<"Sheet2">>, <<"Sheet1", "Sheet2">>,
                <<"Sheet2", "Sheet1">> }

StateChoices(n) ==
    { st \in [1 .. n -> SheetStates] :
        Cardinality({i \in 1 .. n : st[i] # "visible"}) <= 1 }

SmallLayouts ==
    { With(NoCells, <<1, 1>>, Text("X")),
      With(NoCells, <<1, 1>>, Text("Y")),
      With(With(NoCells, <<1, 1>>, Text("X")), <<2, 2>>, Text("Y")) }

Workbooks(layouts) ==
    UNION { { [i \in 1 .. Len(names) |->
                 Sheet(names[i], st[i], cells, NoMerge)] :
              st \in StateChoices(Len(names)), cells \in layouts } :
            names \in NameOrders }

\* Several targets, one after the other.
TargetPool ==
    { [i \in 1 .. Len(names) |->
         Sheet(names[i], "visible", cells, NoMerge)] :
      names \in { <<"Sheet1">>, <<"Sheet1", "Sheet2">>,
                  <<"Sheet2", "Sheet1">> },
      cells \in SmallLayouts }

TargetLists ==
    UNION { [1 .. n -> TargetPool] : n \in 1 .. MaxTargets }

BasePool ==
    { <<Sheet("Sheet1", "visible", cells, NoMerge),
        Sheet("Sheet2", "visible", cells, NoMerge)>> : cells \in SmallLayouts }

target_stem(i) == "t" \o ToString(i)

(***************************************************************************)
(* main()                                                                  *)
(***************************************************************************)
\* differences = [] at the head of the target loop.
kept_differences == differences

new_differences == <<>>

\* max(worksheet1.max_row, worksheet2.max_row), and the same of the columns.
smaller_bound(a, b) == IF a <= b THEN a ELSE b

union_bound(a, b) == IF a >= b THEN a ELSE b

\* The position after (r, c) in "for row in range(1, max_row + 1): for col
\* in range(1, max_col + 1)"; more is FALSE after the last one.
column_major_position(r, c, mr, mc) ==
    IF r < mr THEN [row |-> r + 1, col |-> c, more |-> TRUE]
    ELSE IF c < mc THEN [row |-> 1, col |-> c + 1, more |-> TRUE]
    ELSE [row |-> r, col |-> c, more |-> FALSE]

next_position(r, c, mr, mc) ==
    IF c < mc THEN [row |-> r, col |-> c + 1, more |-> TRUE]
    ELSE IF r < mr THEN [row |-> r + 1, col |-> 1, more |-> TRUE]
    ELSE [row |-> r, col |-> c, more |-> FALSE]

Given(base, target_files) ==
    /\ path1 = [stem |-> "base", file |-> base]
    /\ targets = [i \in 1 .. Len(target_files) |->
                    [stem |-> target_stem(i), file |-> target_files[i]]]

\* One worksheet against one worksheet: the cells in detail.
GridInputs ==
    \E b \in Layouts, m1 \in MergePool, m2 \in {NoMerge, MergedHidden} :
        \E t \in Edited(b) :
            Given(<<Sheet("Sheet1", "visible", b, m1)>>,
                  << <<Sheet("Sheet1", "visible", t, m2)>> >>)

\* One target: which worksheets are compared.
SheetInputs ==
    \E b \in Workbooks({With(NoCells, <<1, 1>>, Text("X"))}),
       t \in Workbooks(SmallLayouts) :
        Given(b, <<t>>)

\* Several targets, one after the other.
TargetInputs ==
    \E b \in BasePool, ts \in TargetLists : Given(b, ts)

Init ==
    /\ GridInputs \/ SheetInputs \/ TargetInputs
    /\ pc = "start"
    /\ workbook1 = <<>>
    /\ workbook2 = <<>>
    /\ target = 0
    /\ sheet = 0
    /\ row = 0
    /\ col = 0
    /\ max_row = 0
    /\ max_col = 0
    /\ differences = <<>>
    /\ console = <<>>
    /\ saved = <<>>
    /\ answer = NoAnswer

\* workbook1 = load_workbook(path1)
LoadBase ==
    /\ pc = "start"
    /\ console' = Append(console, "Opening '" \o file_name(path1) \o "'...")
    /\ workbook1' = load_workbook(path1.file)
    /\ pc' = "targets"
    /\ UNCHANGED <<path1, targets, workbook2, target, sheet, row, col, max_row,
                   max_col, differences, saved, answer>>

\* load_workbook(path1) raises: the exception ends the run.
LoadBaseFails ==
    /\ pc = "start"
    /\ console' = Append(console, "Opening '" \o file_name(path1) \o "'...")
    /\ pc' = "raised"
    /\ UNCHANGED <<path1, targets, workbook1, workbook2, target, sheet, row, col,
                   max_row, max_col, differences, saved, answer>>

\* The next target of the listing: differences = [], workbook2 loaded.
LoadTarget ==
    /\ pc = "targets"
    /\ target < Len(targets)
    /\ target' = target + 1
    /\ differences' = new_differences
    /\ console' = Append(console,
                    "Opening '" \o file_name(targets[target + 1]) \o "'...")
    /\ workbook2' = load_workbook(targets[target + 1].file)
    /\ sheet' = 0
    /\ pc' = "sheets"
    /\ UNCHANGED <<path1, targets, workbook1, row, col, max_row, max_col, saved,
                   answer>>

\* A variant in which a target that fails to load is passed over.
LoadTargetSkipped ==
    /\ pc = "targets"
    /\ target < Len(targets)
    /\ target' = target + 1
    /\ differences' = new_differences
    /\ console' = Append(console,
                    "Opening '" \o file_name(targets[target + 1]) \o "'...")
    /\ pc' = "targets"
    /\ UNCHANGED <<path1, targets, workbook1, workbook2, sheet, row, col,
                   max_row, max_col, saved, answer>>

\* load_workbook(target) raises.
LoadTargetFails ==
    /\ pc = "targets"
    /\ target < Len(targets)
    /\ target' = target + 1
    /\ differences' = new_differences
    /\ console' = Append(console,
                    "Opening '" \o file_name(targets[target + 1]) \o "'...")
    /\ pc' = "raised"
    /\ UNCHANGED <<path1, targets, workbook1, workbook2, sheet, row, col,
                   max_row, max_col, saved, answer>>

\* The listing is exhausted: workbook1.close(), "Done."
Finish ==
    /\ pc = "targets"
    /\ target = Len(targets)
    /\ console' = Append(console, "Done.")
    /\ pc' = "done"
    /\ UNCHANGED <<path1, targets, workbook1, workbook2, target, sheet, row, col,
                   max_row, max_col, differences, saved, answer>>

\* if sheetname not in workbook2.sheetnames: continue
SkipMissingSheet ==
    /\ pc = "sheets"
    /\ sheet < Len(workbook1)
    /\ ~ has_sheet(workbook2, sheetnames(workbook1)[sheet + 1])
    /\ sheet' = sheet + 1
    /\ UNCHANGED <<path1, targets, pc, workbook1, workbook2, target, row, col,
                   max_row, max_col, differences, console, saved, answer>>

\* if is_worksheet_hidden(worksheet1) / (worksheet2): continue
SkipHiddenSheet ==
    /\ pc = "sheets"
    /\ sheet < Len(workbook1)
    /\ LET sheetname == sheetnames(workbook1)[sheet + 1]
       IN  /\ has_sheet(workbook2, sheetname)
           /\ \/ is_worksheet_hidden(
                    workbook1[sheet_index(workbook1, sheetname)])
              \/ is_worksheet_hidden(
                    workbook2[sheet_index(workbook2, sheetname)])
    /\ sheet' = sheet + 1
    /\ UNCHANGED <<path1, targets, pc, workbook1, workbook2, target, row, col,
                   max_row, max_col, differences, console, saved, answer>>

\* A worksheet of both workbooks, hidden in neither: the bounds are taken.
BeginSheet ==
    /\ pc = "sheets"
    /\ sheet < Len(workbook1)
    /\ LET sheetname == sheetnames(workbook1)[sheet + 1]
       IN  /\ has_sheet(workbook2, sheetname)
           /\ LET worksheet1 == workbook1[sheet_index(workbook1, sheetname)]
                  worksheet2 == workbook2[sheet_index(workbook2, sheetname)]
              IN  /\ ~ is_worksheet_hidden(worksheet1)
                  /\ ~ is_worksheet_hidden(worksheet2)
                  /\ console' = Append(console,
                        "Comparing '" \o sheetname \o "' in '"
                            \o file_name(targets[target]) \o "'...")
                  /\ max_row' = union_bound(ws_max_row(worksheet1),
                                            ws_max_row(worksheet2))
                  /\ max_col' = union_bound(ws_max_column(worksheet1),
                                            ws_max_column(worksheet2))
    /\ sheet' = sheet + 1
    /\ row' = 1
    /\ col' = 1
    /\ pc' = "cells"
    /\ UNCHANGED <<path1, targets, workbook1, workbook2, target, differences,
                   saved, answer>>

\* One pass of the body of the column loop, at (row, col).
CompareCell ==
    /\ pc = "cells"
    /\ LET sheetname == sheetnames(workbook1)[sheet]
           i1 == sheet_index(workbook1, sheetname)
           i2 == sheet_index(workbook2, sheetname)
           cell1 == cell(workbook1[i1], row, col)
           cell2 == cell(workbook2[i2], row, col)
           worksheet1 == cell_created(workbook1[i1], row, col)
           worksheet2 == cell_created(workbook2[i2], row, col)
           value1 == cell_value(worksheet1, cell1)
           value2 == cell_value(worksheet2, cell2)
       IN  /\ workbook1' = [workbook1 EXCEPT ![i1] = worksheet1]
           /\ workbook2' = [workbook2 EXCEPT ![i2] = worksheet2]
           /\ differences' =
                IF value1 # value2
                THEN Append(differences,
                        [worksheet_name |-> worksheet1.title,
                         cell_address |-> cell1.coordinate,
                         value1 |-> value1, value2 |-> value2])
                ELSE differences
    /\ LET next == next_position(row, col, max_row, max_col)
       IN  /\ row' = next.row
           /\ col' = next.col
           /\ pc' = IF next.more THEN "cells" ELSE "sheets"
    /\ UNCHANGED <<path1, targets, target, sheet, max_row, max_col, console,
                   saved, answer>>

\* The worksheets are exhausted: workbook2.close().
CloseTarget ==
    /\ pc = "sheets"
    /\ sheet = Len(workbook1)
    /\ pc' = "report"
    /\ UNCHANGED <<path1, targets, workbook1, workbook2, target, sheet, row, col,
                   max_row, max_col, differences, console, saved, answer>>

\* The rows of the differences worksheet: the headers, then the differences.
rows_from_first(base_stem, target_stem_, diffs) ==
    [i \in 1 .. Len(diffs) |->
        <<diffs[i].worksheet_name, diffs[i].cell_address,
          diffs[i].value1, diffs[i].value2>>]

diff_rows(base_stem, target_stem_, diffs) ==
    << <<"Sheet", "Cell", base_stem \o " Value", target_stem_ \o " Value">> >>
        \o [i \in 1 .. Len(diffs) |->
              <<diffs[i].worksheet_name, diffs[i].cell_address,
                diffs[i].value1, diffs[i].value2>>]

diff_workbook_name(base_stem, target_stem_) ==
    "diff_" \o base_stem \o "_" \o target_stem_ \o ".xlsx"

\* if differences: the differences workbook is built and saved.
SaveDifferences ==
    /\ pc = "report"
    /\ differences # <<>>
    /\ LET name == diff_workbook_name(path1.stem, targets[target].stem)
       IN  /\ saved' = Append(saved,
                [name |-> name, title |-> "Differences",
                 rows |-> diff_rows(path1.stem, targets[target].stem,
                                    differences)])
           /\ console' = console \o <<"Writing...",
                                      "Differences saved to " \o name>>
    /\ pc' = "targets"
    /\ UNCHANGED <<path1, targets, workbook1, workbook2, target, sheet, row, col,
                   max_row, max_col, differences, answer>>

\* else: "No differences found."
NoDifferences ==
    /\ pc = "report"
    /\ differences = <<>>
    /\ console' = Append(console, "No differences found.")
    /\ pc' = "targets"
    /\ UNCHANGED <<path1, targets, workbook1, workbook2, target, sheet, row, col,
                   max_row, max_col, differences, saved, answer>>

Next ==
    \/ LoadBase
    \/ LoadBaseFails
    \/ LoadTarget
    \/ LoadTargetFails
    \/ Finish
    \/ SkipMissingSheet
    \/ SkipHiddenSheet
    \/ BeginSheet
    \/ CompareCell
    \/ CloseTarget
    \/ SaveDifferences
    \/ NoDifferences

Spec == Init /\ [][Next]_vars

(***************************************************************************)
(* is_cell_hidden on its own: a worksheet with any one or two merged       *)
(* ranges and at most one hidden row and one hidden column is loaded, and  *)
(* the function is applied to one of its cells.                            *)
(***************************************************************************)
MergedRanges ==
    { Range(r1, c1, r2, c2) : r1 \in Rows, r2 \in Rows, c1 \in Cols,
                              c2 \in Cols } \
    { Range(r, c, r, c) : r \in Rows, c \in Cols }

ProperRanges ==
    { m \in MergedRanges : m.min_row <= m.max_row /\ m.min_col <= m.max_col }

RangeLists ==
    {<<>>} \cup { <<a>> : a \in ProperRanges }
           \cup { ab \in ProperRanges \X ProperRanges : ab[1] # ab[2] }

InitHidden ==
    /\ \E merged \in RangeLists,
          hidden_rows \in {{}} \cup { {r} : r \in Rows },
          hidden_cols \in {{}} \cup { {column_letter(c)} : c \in Cols } :
        /\ path1 = [stem |-> "base",
                    file |-> <<Sheet("Sheet1", "visible", NoCells,
                                     [merged |-> merged,
                                      hidden_rows |-> hidden_rows,
                                      hidden_cols |-> hidden_cols])>>]
        /\ workbook1 = load_workbook(path1.file)
    /\ targets = <<>>
    /\ pc = "query"
    /\ workbook2 = <<>>
    /\ target = 0
    /\ sheet = 0
    /\ row = 0
    /\ col = 0
    /\ max_row = 0
    /\ max_col = 0
    /\ differences = <<>>
    /\ console = <<>>
    /\ saved = <<>>
    /\ answer = NoAnswer

\* is_cell_hidden(worksheet, worksheet.cell(r, c))
Query ==
    /\ pc = "query"
    /\ \E r \in Rows, c \in Cols :
        answer' = [row |-> r, col |-> c,
                   hidden |-> is_cell_hidden(workbook1[1],
                                             cell(workbook1[1], r, c))]
    /\ pc' = "answered"
    /\ UNCHANGED <<path1, targets, workbook1, workbook2, target, sheet, row,
                   col, max_row, max_col, differences, console, saved>>

NextHidden == Query

SpecHidden == InitHidden /\ [][NextHidden]_vars

(***************************************************************************)
(* Properties.                                                             *)
(***************************************************************************)
Min(S) == CHOOSE x \in S : \A y \in S : x <= y

\* The merged ranges of the worksheet, by position, that cover (r, c).
Covering(worksheet, r, c) ==
    { i \in 1 .. Len(worksheet.merged) :
        /\ worksheet.merged[i].min_row <= r /\ r <= worksheet.merged[i].max_row
        /\ worksheet.merged[i].min_col <= c /\ c <= worksheet.merged[i].max_col }

\* Some cell of the range lies on a hidden row or a hidden column.
TouchesHidden(worksheet, m) ==
    \/ \E r \in m.min_row .. m.max_row : r \in worksheet.hidden_rows
    \/ \E c \in m.min_col .. m.max_col : Letters[c] \in worksheet.hidden_cols

Address(r, c) == Letters[c] \o ToString(r)

Value(worksheet, r, c) == cell_value(worksheet, cell(worksheet, r, c))

Differ(worksheet1, worksheet2, r, c) ==
    Value(worksheet1, r, c) # Value(worksheet2, r, c)

RecordAt(worksheet1, worksheet2, r, c) ==
    [worksheet_name |-> worksheet1.title, cell_address |-> Address(r, c),
     value1 |-> Value(worksheet1, r, c), value2 |-> Value(worksheet2, r, c)]

Eligible(wb1, wb2, name) ==
    /\ \E i \in 1 .. Len(wb1) :
          wb1[i].title = name /\ wb1[i].sheet_state = "visible"
    /\ \E i \in 1 .. Len(wb2) :
          wb2[i].title = name /\ wb2[i].sheet_state = "visible"

Named(wb, name) == wb[CHOOSE i \in 1 .. Len(wb) : wb[i].title = name]

IsDifference(rec) == rec.value1 # rec.value2

\* The differing cells of a worksheet pair, row by row.
SheetDifferences(worksheet1, worksheet2) ==
    LET R == Max({ws_max_row(worksheet1), ws_max_row(worksheet2)})
        C == Max({ws_max_column(worksheet1), ws_max_column(worksheet2)})
        all == [n \in 1 .. R * C |->
                  RecordAt(worksheet1, worksheet2,
                           ((n - 1) \div C) + 1, ((n - 1) % C) + 1)]
    IN  SelectSeq(all, IsDifference)

RECURSIVE ExpectedFrom(_, _, _)
ExpectedFrom(wb1, wb2, j) ==
    IF j > Len(wb1) THEN <<>>
    ELSE (IF Eligible(wb1, wb2, wb1[j].title)
          THEN SheetDifferences(wb1[j], Named(wb2, wb1[j].title))
          ELSE <<>>) \o ExpectedFrom(wb1, wb2, j + 1)

\* The differences of the base file against the i-th target file alone.
Expected(i) ==
    ExpectedFrom(load_workbook(path1.file), load_workbook(targets[i].file), 1)

\* The worksheet pair under comparison, or last compared.
CurrentPair ==
    [w1 |-> workbook1[sheet], w2 |-> Named(workbook2, workbook1[sheet].title),
     f1 |-> load_workbook(path1.file)[sheet],
     f2 |-> Named(load_workbook(targets[target].file),
                  workbook1[sheet].title)]

\* A worksheet pair is being compared, or its comparison has just ended.
InComparison ==
    \/ pc = "cells"
    \/ /\ pc \in {"sheets", "report"}
       /\ sheet >= 1
       /\ Eligible(workbook1, workbook2, workbook1[sheet].title)

\* The cells the loops have been through.
Visited ==
    { rc \in (1 .. max_row) \X (1 .. max_col) :
        \/ pc # "cells"
        \/ rc[1] < row
        \/ rc[1] = row /\ rc[2] < col }

RecordsOf(title) ==
    { i \in 1 .. Len(differences) : differences[i].worksheet_name = title }

TargetsIndependent ==
    pc = "report" => differences = Expected(target)

\* A second target is reported with differences, after the first target's
\* comparison has enlarged a worksheet of the base workbook.
TargetsIndependentWitness ==
    /\ pc = "report"
    /\ target = 2
    /\ differences # <<>>
    /\ Expected(1) # <<>>
    /\ \E i \in 1 .. Len(workbook1) :
          /\ Eligible(workbook1, workbook2, workbook1[i].title)
          /\ ws_max_row(workbook1[i]) > ws_max_row(load_workbook(path1.file)[i])
          /\ ws_max_row(workbook1[i]) >
                ws_max_row(Named(load_workbook(targets[2].file),
                                 workbook1[i].title))

\* The position of a worksheet title in the base workbook.
BaseOrder(title) == CHOOSE i \in 1 .. Len(workbook1) : workbook1[i].title = title

\* The (row, column) of a cell address.
RowCol(address) ==
    CHOOSE rc \in (1 .. MaxRow) \X (1 .. MaxCol) : Address(rc[1], rc[2]) = address

\* C6: in the difference list the records of one worksheet are in strictly
\* ascending (row, column) order, and the worksheets follow one another in
\* the order of the base workbook, never interleaved.
DifferencesOrdered ==
    \A i \in 1 .. Len(differences), j \in 1 .. Len(differences) :
        i < j =>
            LET a == differences[i]
                b == differences[j]
            IN  \/ BaseOrder(a.worksheet_name) < BaseOrder(b.worksheet_name)
                \/ /\ a.worksheet_name = b.worksheet_name
                   /\ \/ RowCol(a.cell_address)[1] < RowCol(b.cell_address)[1]
                      \/ /\ RowCol(a.cell_address)[1] = RowCol(b.cell_address)[1]
                         /\ RowCol(a.cell_address)[2] < RowCol(b.cell_address)[2]

\* Two worksheets with differences, one of them on two rows and in two
\* columns.
DifferencesOrderedWitness ==
    /\ pc = "report"
    /\ \E i \in 1 .. Len(differences), j \in 1 .. Len(differences),
          k \in 1 .. Len(differences) :
          /\ differences[i].worksheet_name = differences[j].worksheet_name
          /\ RowCol(differences[i].cell_address)[1]
                # RowCol(differences[j].cell_address)[1]
          /\ RowCol(differences[i].cell_address)[2]
                # RowCol(differences[j].cell_address)[2]
          /\ differences[k].worksheet_name # differences[i].worksheet_name

\* The targets whose comparison has been reported.
Completed ==
    IF pc \in {"targets", "done"} THEN target
    ELSE IF target = 0 THEN 0 ELSE target - 1

ArtifactName(k) == "diff_" \o path1.stem \o "_" \o targets[k].stem \o ".xlsx"

ArtifactsOf(k) == { i \in 1 .. Len(saved) : saved[i].name = ArtifactName(k) }

Header(k) ==
    <<"Sheet", "Cell", path1.stem \o " Value", targets[k].stem \o " Value">>

RowsOf(k, diffs) ==
    [n \in 1 .. Len(diffs) + 1 |->
        IF n = 1 THEN Header(k)
        ELSE <<diffs[n - 1].worksheet_name, diffs[n - 1].cell_address,
               diffs[n - 1].value1, diffs[n - 1].value2>>]

\* C7: a file is saved for a target exactly when the target's difference
\* list is not empty; the file holds the header row and then one row per
\* difference of that target, in order.
ArtifactIffDifferences ==
    /\ \A k \in 1 .. Completed :
          /\ ArtifactsOf(k) # {} <=> Expected(k) # <<>>
          /\ Cardinality(ArtifactsOf(k)) <= 1
          /\ \A i \in ArtifactsOf(k) :
                /\ saved[i].rows = RowsOf(k, Expected(k))
                /\ Len(saved[i].rows) = Len(Expected(k)) + 1
    /\ pc = "targets" /\ target >= 1 =>
          /\ ArtifactsOf(target) # {} <=> differences # <<>>
          /\ \A i \in ArtifactsOf(target) :
                saved[i].rows = RowsOf(target, differences)

\* Two targets done: none saved for the first, identical to the base, one
\* for the second.
ArtifactIffDifferencesWitness ==
    /\ pc = "done"
    /\ Len(targets) = 2
    /\ targets[1].file = path1.file
    /\ ArtifactsOf(1) = {}
    /\ ArtifactsOf(2) # {}

InConsole(line) == \E i \in 1 .. Len(console) : console[i] = line

ComparingLine(title, k) ==
    "Comparing '" \o title \o "' in '" \o targets[k].stem \o ".xlsx'..."

OpeningLine(stem) == "Opening '" \o stem \o ".xlsx'..."

Titles(wb) == { wb[i].title : i \in 1 .. Len(wb) }

\* C5: a worksheet is compared exactly when its name is in both workbooks
\* and it is visible in both; any other worksheet leaves no difference and
\* raises no error.
SheetCompared ==
    /\ pc = "report" =>
          \A title \in Titles(workbook1) \cup Titles(workbook2) :
              /\ InConsole(ComparingLine(title, target))
                    <=> Eligible(load_workbook(path1.file),
                                 load_workbook(targets[target].file), title)
              /\ ~ Eligible(load_workbook(path1.file),
                            load_workbook(targets[target].file), title)
                    => RecordsOf(title) = {}
    /\ pc = "raised" =>
          console[Len(console)] =
              OpeningLine(IF target = 0 THEN path1.stem
                          ELSE targets[target].stem)

\* A worksheet of both workbooks, very hidden in the target, whose cells
\* differ, has left no difference.
SheetComparedWitness ==
    /\ pc = "report"
    /\ \E i \in 1 .. Len(workbook1) :
          /\ workbook1[i].sheet_state = "visible"
          /\ has_sheet(workbook2, workbook1[i].title)
          /\ Named(workbook2, workbook1[i].title).sheet_state = "veryHidden"
          /\ SheetDifferences(workbook1[i],
                              Named(workbook2, workbook1[i].title)) # <<>>
          /\ RecordsOf(workbook1[i].title) = {}

\* C9: the targets are taken one at a time in listing order, each reported
\* before the next is opened; a failed load ends the run: of the base, with
\* nothing loaded or saved; of target k, with no file saved for k or later
\* and the files of the earlier targets in place.
LoadFailureFatal ==
    /\ pc = "raised" /\ target = 0 =>
          /\ saved = <<>>
          /\ workbook1 = <<>>
          /\ workbook2 = <<>>
          /\ console = <<OpeningLine(path1.stem)>>
    /\ pc = "raised" => ~ ENABLED Next
    /\ \A k \in 1 .. Len(targets) :
          /\ k > Completed => ArtifactsOf(k) = {}
          /\ pc = "raised" /\ k < target /\ Expected(k) # <<>>
                => ArtifactsOf(k) # {}
          /\ \A i \in 1 .. Len(console) :
                console[i] = OpeningLine(targets[k].stem) =>
                    /\ k <= target
                    /\ \/ k = 1 /\ i = 2
                       \/ /\ k > 1
                          /\ i > 1
                          /\ console[i - 1] \in
                                {"No differences found.",
                                 "Differences saved to " \o ArtifactName(k - 1)}

\* The second target fails to load after the first one's file was saved.
LoadFailureFatalWitness ==
    /\ pc = "raised"
    /\ target = 2
    /\ ArtifactsOf(1) # {}

\* The content class of a cell: what the cell holds, not its type code.
ContentClass(c) ==
    CASE c.value.kind = "none" -> "empty"
      [] c.value.kind = "error" -> "error"
      [] c.value.kind = "formula" -> "formula"
      [] c.data_type = TYPE_FORMULA_CACHE_STRING -> "formula-display-text"
      [] OTHER -> "literal"

\* In no merged range that has a cell on a hidden row or column.
Visible(worksheet, r, c) ==
    \A i \in Covering(worksheet, r, c) :
        ~ TouchesHidden(worksheet, worksheet.merged[i])

\* C2: a visible literal cell with different raw values on the two sides,
\* numbers included, gives exactly one difference for its coordinate,
\* carrying the text of the two raw values (A1=5, B1=10 against A1=5,
\* B1=99 gives the one record Sheet1, B1, 10, 99).
LiteralDifferenceReported ==
    pc = "report" =>
        \A i \in 1 .. Len(workbook1) :
            Eligible(workbook1, workbook2, workbook1[i].title) =>
                LET f1 == load_workbook(path1.file)[i]
                    f2 == Named(load_workbook(targets[target].file), f1.title)
                IN  \A rc \in DOMAIN f1.cells \cap DOMAIN f2.cells :
                        LET c1 == cell(f1, rc[1], rc[2])
                            c2 == cell(f2, rc[1], rc[2])
                            at == { n \in RecordsOf(f1.title) :
                                      differences[n].cell_address =
                                          Address(rc[1], rc[2]) }
                        IN  /\ ContentClass(c1) = "literal"
                            /\ ContentClass(c2) = "literal"
                            /\ Visible(f1, rc[1], rc[2])
                            /\ Visible(f2, rc[1], rc[2])
                            /\ str(c1.value) # str(c2.value)
                            => /\ Cardinality(at) = 1
                               /\ \A n \in at :
                                     /\ differences[n].value1 = str(c1.value)
                                     /\ differences[n].value2 = str(c2.value)

\* C3: the compared value of a cell is "" when the cell is hidden or its
\* content class is empty, error, formula or formula-display-text, and the
\* text of its raw value otherwise; two cells that are both masked leave no
\* difference.
MaskedOrRendered ==
    /\ \A wb \in {workbook1, workbook2} :
          \A i \in 1 .. Len(wb) :
              \A rc \in Rows \X Cols :
                  LET c == cell(wb[i], rc[1], rc[2])
                  IN  Value(wb[i], rc[1], rc[2]) =
                          IF \/ is_cell_hidden(wb[i], c)
                             \/ ContentClass(c) \in
                                   {"empty", "error", "formula",
                                    "formula-display-text"}
                          THEN ""
                          ELSE str(c.value)
    /\ \A n \in 1 .. Len(differences) :
          differences[n].value1 # "" \/ differences[n].value2 # ""

\* C10: a comparison leaves the worksheets of both workbooks as they were
\* loaded: the cells that exist, the bounds, the merged ranges and the
\* hidden flags.
SameSheets(wb, file) ==
    /\ Len(wb) = Len(file)
    /\ \A i \in 1 .. Len(wb) :
          /\ DOMAIN wb[i].cells = DOMAIN file[i].cells
          /\ ws_max_row(wb[i]) = ws_max_row(file[i])
          /\ ws_max_column(wb[i]) = ws_max_column(file[i])
          /\ wb[i].merged = file[i].merged
          /\ wb[i].hidden_rows = file[i].hidden_rows
          /\ wb[i].hidden_cols = file[i].hidden_cols

WorkbooksUnchanged ==
    /\ pc \notin {"start", "raised", "query", "answered"} =>
          SameSheets(workbook1, load_workbook(path1.file))
    /\ pc \in {"sheets", "cells", "report"} =>
          SameSheets(workbook2, load_workbook(targets[target].file))

====
